---- MODULE Spec2Model ----
(***************************************************************************)
(* Model of the post store of cli-cms (internal/database) and of the       *)
(* commands that drive it.                                                 *)
(*                                                                         *)
(* The posts table is a function from the stored ids to rows.  A nullable  *)
(* TEXT column holds a sql.NullString: Valid = FALSE is SQL NULL.  Times   *)
(* are integers read from a wall clock that never runs backwards and that  *)
(* two calls may read at the same value; ZeroTime is the zero time.Time.   *)
(***************************************************************************)
EXTENDS Integers, Sequences, FiniteSets, TLC

\* ---------------------------------------------------------------- bounds
MaxId == 2
MaxTime == 2
MaxLen == 5

\* ---------------------------------------------------------------- inputs
\* The <<title, content, author>> triples callers pass: each field takes two
\* values, and content and author are once empty and once filled in.
Drafts == {<<"A", "", "">>, <<"Z", "B", "C">>}
Slugs == {"", "s", "t"}
IdInputs == -1 .. MaxId
Limits == {-1, 0, 1, 2}
Offsets == {0, 1}

ZeroTime == 0

ErrNil == "nil"
ErrNotFound == "post not found"
ErrUnique == "UNIQUE constraint failed: posts.slug"

VARIABLES posts, seq, now, ret, deleted, closed, once, procs

vars == <<posts, seq, now, ret, deleted, closed, once, procs>>

\* ------------------------------------------------------------ conversion
\* (the empty string stored as text rather than as NULL)
StringToNullString_text(s) == [Valid |-> TRUE, String |-> s]

StringToNullString(s) ==
    IF s = "" THEN [Valid |-> FALSE, String |-> ""]
              ELSE [Valid |-> TRUE, String |-> s]

NullStringToString(ns) ==
    IF ~ns.Valid THEN "" ELSE ns.String

\* (content and author bound to each other's column)
CreatePostFromInput_swapped(title, content, author, slug) ==
    [ID |-> 0,
     Title |-> title,
     Content |-> StringToNullString(author),
     Author |-> StringToNullString(content),
     Slug |-> StringToNullString(slug),
     CreatedAt |-> ZeroTime,
     UpdatedAt |-> ZeroTime]

CreatePostFromInput(title, content, author, slug) ==
    [ID |-> 0,
     Title |-> title,
     Content |-> StringToNullString(content),
     Author |-> StringToNullString(author),
     Slug |-> StringToNullString(slug),
     CreatedAt |-> ZeroTime,
     UpdatedAt |-> ZeroTime]

\* ---------------------------------------------------------------- schema
\* slug TEXT UNIQUE: two rows conflict when both slugs are non-NULL and equal.
\* (the column declared without UNIQUE)
SlugUnique_off(ps, slug) == TRUE

SlugUnique(ps, slug) ==
    ~slug.Valid \/ \A i \in DOMAIN ps : ~(ps[i].Slug.Valid /\ ps[i].Slug.String = slug.String)

\* id INTEGER PRIMARY KEY AUTOINCREMENT: one more than the largest id ever
\* assigned, which sqlite_sequence (seq) remembers across deletes.
MaxOf(S) == IF S = {} THEN 0 ELSE CHOOSE m \in S : \A x \in S : x <= m

\* (the column declared without AUTOINCREMENT: one more than the largest id
\* now in the table)
NextID_rowid(ps, sq) == MaxOf(DOMAIN ps) + 1

\* (the id taken to be the number of rows plus one)
NextID_count(ps, sq) == Cardinality(DOMAIN ps) + 1

NextID(ps, sq) == sq + 1

\* ------------------------------------------------------- store operations
\* A *Post result is <<>> for nil and <<p>> for a post.
\* (post.UpdatedAt = now left out: updated_at inserted as the zero time)
CreatePost_noupdated(ps, sq, t, post) ==
    LET p == [post EXCEPT !.CreatedAt = t]
        id == NextID(ps, sq)
        row == [p EXCEPT !.ID = id]
    IN  IF ~SlugUnique(ps, p.Slug)
        THEN [err |-> ErrUnique, post |-> <<>>, posts |-> ps, seq |-> sq]
        ELSE [err |-> ErrNil, post |-> <<row>>,
              posts |-> [i \in DOMAIN ps \cup {id} |-> IF i = id THEN row ELSE ps[i]],
              seq |-> id]

\* (INSERT OR REPLACE: the row holding the slug makes way for the new one)
CreatePost_replace(ps, sq, t, post) ==
    LET p == [post EXCEPT !.CreatedAt = t, !.UpdatedAt = t]
        id == NextID(ps, sq)
        row == [p EXCEPT !.ID = id]
        keep == {i \in DOMAIN ps : ~(p.Slug.Valid /\ ps[i].Slug = p.Slug)}
    IN  [err |-> ErrNil, post |-> <<row>>,
         posts |-> [i \in keep \cup {id} |-> IF i = id THEN row ELSE ps[i]],
         seq |-> id]

CreatePost(ps, sq, t, post) ==
    LET p == [post EXCEPT !.CreatedAt = t, !.UpdatedAt = t]
        id == NextID(ps, sq)
        row == [p EXCEPT !.ID = id]
    IN  IF ~SlugUnique(ps, p.Slug)
        THEN [err |-> ErrUnique, post |-> <<>>, posts |-> ps, seq |-> sq]
        ELSE [err |-> ErrNil, post |-> <<row>>,
              posts |-> [i \in DOMAIN ps \cup {id} |-> IF i = id THEN row ELSE ps[i]],
              seq |-> id]

\* (a non-positive id taken as "no id given" and answered with the oldest row)
GetPostByID_first(ps, id) ==
    IF id \in DOMAIN ps
    THEN [err |-> ErrNil, post |-> <<ps[id]>>]
    ELSE IF id <= 0 /\ DOMAIN ps # {}
    THEN [err |-> ErrNil, post |-> <<ps[CHOOSE i \in DOMAIN ps : \A j \in DOMAIN ps : i <= j]>>]
    ELSE [err |-> ErrNotFound, post |-> <<>>]

GetPostByID(ps, id) ==
    IF id \in DOMAIN ps
    THEN [err |-> ErrNil, post |-> <<ps[id]>>]
    ELSE [err |-> ErrNotFound, post |-> <<>>]

\* (WHERE COALESCE(slug, '') = ?: a NULL slug answering to the empty string)
GetPostBySlug_coalesce(ps, slug) ==
    LET hit == {i \in DOMAIN ps : NullStringToString(ps[i].Slug) = slug}
    IN  IF hit = {}
        THEN [err |-> ErrNotFound, post |-> <<>>]
        ELSE [err |-> ErrNil, post |-> <<ps[CHOOSE i \in hit : \A j \in hit : i <= j]>>]

\* WHERE slug = ?: a NULL slug matches nothing.
GetPostBySlug(ps, slug) ==
    LET hit == {i \in DOMAIN ps : ps[i].Slug.Valid /\ ps[i].Slug.String = slug}
    IN  IF hit = {}
        THEN [err |-> ErrNotFound, post |-> <<>>]
        ELSE [err |-> ErrNil, post |-> <<ps[CHOOSE i \in hit : \A j \in hit : i <= j]>>]

\* (the UPDATE also setting slug = ?)
UpdatePostByID_slug(ps, t, id, updates) ==
    IF id \notin DOMAIN ps
    THEN [err |-> ErrNotFound, post |-> <<>>, posts |-> ps]
    ELSE LET ps2 == [ps EXCEPT ![id].Title = updates.Title,
                               ![id].Content = updates.Content,
                               ![id].Author = updates.Author,
                               ![id].Slug = updates.Slug,
                               ![id].UpdatedAt = t]
             got == GetPostByID(ps2, id)
         IN  [err |-> got.err, post |-> got.post, posts |-> ps2]

\* (an UPDATE that writes the title and leaves content and author)
UpdatePostByID_partial(ps, t, id, updates) ==
    IF id \notin DOMAIN ps
    THEN [err |-> ErrNotFound, post |-> <<>>, posts |-> ps]
    ELSE LET ps2 == [ps EXCEPT ![id].Title = updates.Title,
                               ![id].UpdatedAt = t]
             got == GetPostByID(ps2, id)
         IN  [err |-> got.err, post |-> got.post, posts |-> ps2]

\* (an upsert: an id that matches no row gets one)
UpdatePostByID_upsert(ps, t, id, updates) ==
    LET row == [updates EXCEPT !.ID = id, !.CreatedAt = t, !.UpdatedAt = t]
        ps2 == IF id \in DOMAIN ps
               THEN [ps EXCEPT ![id].Title = updates.Title,
                               ![id].Content = updates.Content,
                               ![id].Author = updates.Author,
                               ![id].UpdatedAt = t]
               ELSE [i \in DOMAIN ps \cup {id} |-> IF i = id THEN row ELSE ps[i]]
        got == GetPostByID(ps2, id)
    IN  [err |-> got.err, post |-> got.post, posts |-> ps2]

UpdatePostByID(ps, t, id, updates) ==
    IF id \notin DOMAIN ps
    THEN [err |-> ErrNotFound, post |-> <<>>, posts |-> ps]
    ELSE LET ps2 == [ps EXCEPT ![id].Title = updates.Title,
                               ![id].Content = updates.Content,
                               ![id].Author = updates.Author,
                               ![id].UpdatedAt = t]
             got == GetPostByID(ps2, id)
         IN  [err |-> got.err, post |-> got.post, posts |-> ps2]

UpdatePostBySlug(ps, t, slug, updates) ==
    LET existingPost == GetPostBySlug(ps, slug)
    IN  IF existingPost.err # ErrNil
        THEN [err |-> existingPost.err, post |-> <<>>, posts |-> ps]
        ELSE UpdatePostByID(ps, t, existingPost.post[1].ID, updates)

\* (DELETE ... WHERE id <= ?)
DeletePostByID_upto(ps, id) ==
    LET hit == {i \in DOMAIN ps : i <= id}
    IN  IF hit = {}
        THEN [err |-> ErrNotFound, posts |-> ps, gone |-> {}]
        ELSE [err |-> ErrNil, posts |-> [i \in DOMAIN ps \ hit |-> ps[i]], gone |-> hit]

DeletePostByID(ps, id) ==
    LET hit == {i \in DOMAIN ps : i = id}
    IN  IF hit = {}
        THEN [err |-> ErrNotFound, posts |-> ps, gone |-> {}]
        ELSE [err |-> ErrNil, posts |-> [i \in DOMAIN ps \ hit |-> ps[i]], gone |-> hit]

DeletePostBySlug(ps, slug) ==
    LET hit == {i \in DOMAIN ps : ps[i].Slug.Valid /\ ps[i].Slug.String = slug}
    IN  IF hit = {}
        THEN [err |-> ErrNotFound, posts |-> ps, gone |-> {}]
        ELSE [err |-> ErrNil, posts |-> [i \in DOMAIN ps \ hit |-> ps[i]], gone |-> hit]

\* ORDER BY created_at DESC leaves the order of equal created_at open: ord is
\* any arrangement of the stored ids the sort may produce.
Orderings(ps) ==
    {o \in [1 .. Cardinality(DOMAIN ps) -> DOMAIN ps] :
        /\ \A i, j \in DOMAIN o : i # j => o[i] # o[j]
        /\ \A i, j \in DOMAIN o : i < j => ps[o[i]].CreatedAt >= ps[o[j]].CreatedAt}

\* (the query run without its OFFSET)
ListPosts_nooffset(ps, ord, limit, offset) ==
    LET n == Len(ord)
        to == IF limit < 0 \/ limit > n THEN n ELSE limit
    IN  [err |-> ErrNil, posts |-> [k \in 1 .. to |-> ps[ord[k]]]]

\* LIMIT ? OFFSET ?: a negative LIMIT is no limit, a negative OFFSET is 0.
ListPosts(ps, ord, limit, offset) ==
    LET n == Len(ord)
        off == IF offset < 0 THEN 0 ELSE offset
        from == off + 1
        to == IF limit < 0 \/ off + limit > n THEN n ELSE off + limit
    IN  [err |-> ErrNil, posts |-> [k \in 1 .. (IF to >= from THEN to - from + 1 ELSE 0) |-> ps[ord[from + k - 1]]]]

\* ---------------------------------------------------------------- state
NoArgs == [title |-> "", content |-> "", author |-> "", slug |-> "", id |-> 0, flags |-> {},
           limit |-> 0, offset |-> 0, chars |-> <<>>, useEditor |-> FALSE, editor |-> "",
           session |-> "unused", form |-> "none",
           cancel |-> "never"]

\* The callers that run concurrently, and a caller that is not in a call.
Procs == {"p1", "p2"}
Idle ==
    [pc |-> "idle", op |-> "", url |-> "", err |-> ErrNil, instance |-> "nil", id |-> 0,
     slug |-> "", title |-> ""]

\* The store has been constructed through GetDatabase and is open.
Built == [done |-> TRUE, instance |-> "db1", built |-> <<"">>]

Init ==
    /\ posts = <<>>
    /\ seq = 0
    /\ now = 1
    /\ deleted = {}
    /\ closed = FALSE
    /\ once = Built
    /\ procs = [p \in Procs |-> Idle]
    /\ ret = [op |-> "New", err |-> ErrNil, post |-> <<>>, list |-> <<>>, text |-> <<>>, calls |-> <<>>, detail |-> "", in |-> NoArgs]

\* time passes
Tick ==
    /\ now < MaxTime
    /\ now' = now + 1
    /\ UNCHANGED <<posts, seq, ret, deleted, closed, once, procs>>

\* Posts.CreatePostWithContent: build the post from the inputs and insert it.
DoCreatePost ==
    \E d \in Drafts, slug \in Slugs :
        LET title == d[1]
            content == d[2]
            author == d[3]
            r == CreatePost(posts, seq, now, CreatePostFromInput(title, content, author, slug))
        IN  /\ seq < MaxId
            /\ posts' = r.posts
            /\ seq' = r.seq
            /\ ret' = [op |-> "CreatePost", err |-> r.err, post |-> r.post, list |-> <<>>, text |-> <<>>, calls |-> <<>>, detail |-> "",
                       in |-> [NoArgs EXCEPT !.title = title, !.content = content,
                                             !.author = author, !.slug = slug]]
            /\ UNCHANGED <<now, deleted, closed, once, procs>>

DoGetPostByID ==
    \E id \in IdInputs :
        LET r == GetPostByID(posts, id)
        IN  /\ ret' = [op |-> "GetPostByID", err |-> r.err, post |-> r.post, list |-> <<>>, text |-> <<>>, calls |-> <<>>, detail |-> "",
                       in |-> [NoArgs EXCEPT !.id = id]]
            /\ UNCHANGED <<posts, seq, now, deleted, closed, once, procs>>

DoGetPostBySlug ==
    \E slug \in Slugs :
        LET r == GetPostBySlug(posts, slug)
        IN  /\ ret' = [op |-> "GetPostBySlug", err |-> r.err, post |-> r.post, list |-> <<>>, text |-> <<>>, calls |-> <<>>, detail |-> "",
                       in |-> [NoArgs EXCEPT !.slug = slug]]
            /\ UNCHANGED <<posts, seq, now, deleted, closed, once, procs>>

\* Post values a caller passes to the update operations directly.
UpdateInputs ==
    {CreatePostFromInput(d[1], d[2], d[3], "") : d \in Drafts}

DoUpdatePostByID ==
    \E id \in IdInputs, updates \in UpdateInputs :
        LET r == UpdatePostByID(posts, now, id, updates)
        IN  /\ posts' = r.posts
            /\ ret' = [op |-> "UpdatePostByID", err |-> r.err, post |-> r.post, list |-> <<>>, text |-> <<>>, calls |-> <<>>, detail |-> "",
                       in |-> [NoArgs EXCEPT !.id = id]]
            /\ UNCHANGED <<seq, now, deleted, closed, once, procs>>

DoUpdatePostBySlug ==
    \E slug \in Slugs, updates \in UpdateInputs :
        LET r == UpdatePostBySlug(posts, now, slug, updates)
        IN  /\ posts' = r.posts
            /\ ret' = [op |-> "UpdatePostBySlug", err |-> r.err, post |-> r.post, list |-> <<>>, text |-> <<>>, calls |-> <<>>, detail |-> "",
                       in |-> [NoArgs EXCEPT !.slug = slug]]
            /\ UNCHANGED <<seq, now, deleted, closed, once, procs>>

DoDeletePostByID ==
    \E id \in IdInputs :
        LET r == DeletePostByID(posts, id)
        IN  /\ posts' = r.posts
            /\ deleted' = deleted \cup r.gone
            /\ ret' = [op |-> "DeletePostByID", err |-> r.err, post |-> <<>>, list |-> <<>>, text |-> <<>>, calls |-> <<>>, detail |-> "",
                       in |-> [NoArgs EXCEPT !.id = id]]
            /\ UNCHANGED <<seq, now, closed, once, procs>>

DoDeletePostBySlug ==
    \E slug \in Slugs :
        LET r == DeletePostBySlug(posts, slug)
        IN  /\ posts' = r.posts
            /\ deleted' = deleted \cup r.gone
            /\ ret' = [op |-> "DeletePostBySlug", err |-> r.err, post |-> <<>>, list |-> <<>>, text |-> <<>>, calls |-> <<>>, detail |-> "",
                       in |-> [NoArgs EXCEPT !.slug = slug]]
            /\ UNCHANGED <<seq, now, closed, once, procs>>

DoListPosts ==
    \E limit \in Limits, offset \in Offsets, ord \in Orderings(posts) :
        LET r == ListPosts(posts, ord, limit, offset)
        IN  /\ ret' = [op |-> "ListPosts", err |-> r.err, post |-> <<>>, list |-> r.posts, text |-> <<>>, calls |-> <<>>, detail |-> "",
                       in |-> [NoArgs EXCEPT !.limit = limit, !.offset = offset]]
            /\ UNCHANGED <<posts, seq, now, deleted, closed, once, procs>>

Next ==
    \/ Tick
    \/ DoCreatePost
    \/ DoGetPostByID
    \/ DoUpdatePostByID
    \/ DoUpdatePostBySlug
    \/ DoDeletePostByID
    \/ DoDeletePostBySlug

Spec == Init /\ [][Next]_vars

\* ------------------------------------------------------- update command
\* The values the update command's flags take, and what an editor session
\* can end in: no editor found, the editor failing, or the edited text.
NewTitles == {"T"}
NewContents == {"K"}
NewAuthors == {"U"}
EditorFlags == {"unset", "false", "true"}
EditorRuns ==
    {[available |-> FALSE, failed |-> FALSE, text |-> ""],
     [available |-> TRUE, failed |-> TRUE, text |-> ""],
     [available |-> TRUE, failed |-> FALSE, text |-> "K"]}
NoEditorRun == [available |-> FALSE, failed |-> FALSE, text |-> ""]

\* A flag is <<>> when it was not given and <<v>> when it was given as v.
Flag(values) == {<<>>} \cup {<<v>> : v \in values}

ErrNoIdent == "either --id or --slug flag must be set to identify the post"
ErrBothIdent == "cannot use both --id and --slug flags together"
ErrNoField == "at least one field must be specified to update"
ErrGetExisting == "failed to get existing post"
ErrEditorMissing == "editor not available"
ErrEditFailed == "failed to edit content"
ErrUpdateFailed == "failed to update post"

\* The command's Post holds Go strings, and a string bound to a TEXT column is
\* stored as that text, the empty string included.
GoString(s) == [Valid |-> TRUE, String |-> s]

\* var updates database.Post, then one assignment per flag that was given.
BuildUpdates(title, content, author, editor, run) ==
    [ID |-> 0,
     Title |-> IF title # <<>> THEN title[1] ELSE "",
     Content |-> GoString(IF editor # "unset"
                          THEN (IF editor = "true" THEN run.text ELSE "")
                          ELSE IF content # <<>> THEN content[1] ELSE ""),
     Author |-> GoString(IF author # <<>> THEN author[1] ELSE ""),
     Slug |-> GoString(""),
     CreatedAt |-> ZeroTime,
     UpdatedAt |-> ZeroTime]

\* The outcome of the command on store ps at time t: the error it returns, the
\* post it prints and the store it leaves.
updatePostRun(ps, t, idSet, slugSet, id, slug, title, content, author, editor, run) ==
    LET quit(e) == [err |-> e, post |-> <<>>, posts |-> ps]
        existingPost == IF idSet THEN GetPostByID(ps, id) ELSE GetPostBySlug(ps, slug)
        updates == BuildUpdates(title, content, author, editor, run)
        done == IF idSet THEN UpdatePostByID(ps, t, id, updates)
                         ELSE UpdatePostBySlug(ps, t, slug, updates)
    IN  IF ~idSet /\ ~slugSet THEN quit(ErrNoIdent)
        ELSE IF idSet /\ slugSet THEN quit(ErrBothIdent)
        ELSE IF title = <<>> /\ content = <<>> /\ author = <<>> /\ editor = "unset"
             THEN quit(ErrNoField)
        ELSE IF existingPost.err # ErrNil THEN quit(ErrGetExisting)
        ELSE IF editor = "true" /\ ~run.available THEN quit(ErrEditorMissing)
        ELSE IF editor = "true" /\ run.failed THEN quit(ErrEditFailed)
        ELSE IF done.err # ErrNil THEN [err |-> ErrUpdateFailed, post |-> <<>>, posts |-> done.posts]
        ELSE done

\* The ways the command line names the post: neither flag, --id, --slug, or
\* both.  A flag that was not given has its default value.
Idents ==
    {[idSet |-> FALSE, slugSet |-> FALSE, id |-> 0, slug |-> ""],
     [idSet |-> TRUE, slugSet |-> TRUE, id |-> 1, slug |-> "s"]}
    \cup {[idSet |-> TRUE, slugSet |-> FALSE, id |-> i, slug |-> ""] : i \in IdInputs}
    \cup {[idSet |-> FALSE, slugSet |-> TRUE, id |-> 0, slug |-> g] : g \in Slugs}

\* The --editor flag with the editor session it leads to, if any.
Editors ==
    {[flag |-> f, run |-> NoEditorRun] : f \in {"unset", "false"}}
    \cup {[flag |-> "true", run |-> r] : r \in EditorRuns}

FlagsChanged(w, title, content, author, e) ==
    {f \in {"id", "slug", "title", "content", "author", "editor"} :
        \/ f = "id" /\ w.idSet
        \/ f = "slug" /\ w.slugSet
        \/ f = "title" /\ title # <<>>
        \/ f = "content" /\ content # <<>>
        \/ f = "author" /\ author # <<>>
        \/ f = "editor" /\ e.flag # "unset"}

updatePost ==
    \E w \in Idents, e \in Editors,
       title \in Flag(NewTitles), content \in Flag(NewContents), author \in Flag(NewAuthors) :
        LET r == updatePostRun(posts, now, w.idSet, w.slugSet, w.id, w.slug,
                               title, content, author, e.flag, e.run)
        IN  /\ posts' = r.posts
            /\ ret' = [op |-> "updatePost", err |-> r.err, post |-> r.post, list |-> <<>>, text |-> <<>>, calls |-> <<>>, detail |-> "",
                       in |-> [NoArgs EXCEPT
                                 !.flags = FlagsChanged(w, title, content, author, e)]]
            /\ UNCHANGED <<seq, now, deleted, closed, once, procs>>

\* The update command at work: a post is created in the empty store, time
\* passes, and the command runs against it any number of times.
NextCmd ==
    \/ Tick
    \/ DoCreatePost /\ posts = <<>>
    \/ updatePost

SpecCmd == Init /\ [][NextCmd]_vars

\* The store with its queries: the writes that fill and empty the table, and
\* every read.
NextRead ==
    \/ Tick
    \/ DoCreatePost
    \/ DoDeletePostByID
    \/ DoDeletePostBySlug
    \/ DoGetPostByID
    \/ DoGetPostBySlug
    \/ DoListPosts

SpecRead == Init /\ [][NextRead]_vars

\* ------------------------------------------------------------ post form
\* PostFormData.ToPost: the form's fields handed to CreatePostFromInput.
ToPost(data) ==
    CreatePostFromInput(data.Title, data.Content, data.Author, data.Slug)

\* The strings a form or a command line supplies for one post.
TitleInputs == {"", "A"}
FieldInputs == {"", "x"}

FormInputs ==
    {[NoArgs EXCEPT !.title = t, !.content = c, !.author = a, !.slug = g] :
        t \in TitleInputs, c \in FieldInputs, a \in FieldInputs, g \in FieldInputs}

\* A title as the sequence of its characters.  The characters stand for the
\* classes generateSlug tells apart: ASCII lowercase, ASCII uppercase, digit,
\* hyphen, space, other whitespace (tab), punctuation, and a non-ASCII letter.
Chars == {"a", "B", "7", "-", " ", "\t", "!", "é"}

TitleChars == UNION {[1 .. n -> Chars] : n \in 0 .. MaxLen}

\* strings.ToLower on one character
ToLower(c) == IF c = "B" THEN "b" ELSE c

\* (strings.Replace with n = 1: only the first occurrence replaced)
ReplaceAll_first(s, old, new) ==
    [i \in DOMAIN s |-> IF s[i] = old /\ (\A j \in 1 .. i - 1 : s[j] # old) THEN new ELSE s[i]]

\* strings.ReplaceAll(s, old, new) for a one-character old
ReplaceAll(s, old, new) == [i \in DOMAIN s |-> IF s[i] = old THEN new ELSE s[i]]

\* (r >= 'a' && r <= 'z') || (r >= '0' && r <= '9') || r == '-'
Kept(r) == r \in {"a", "b", "7", "-"}

RECURSIVE Filter(_)
Filter(s) ==
    IF s = <<>> THEN <<>>
    ELSE IF Kept(Head(s)) THEN <<Head(s)>> \o Filter(Tail(s))
    ELSE Filter(Tail(s))

\* strings.Contains(s, "--")
ContainsDouble(s) == \E i \in 1 .. Len(s) - 1 : s[i] = "-" /\ s[i + 1] = "-"

\* strings.ReplaceAll(s, "--", "-"): the non-overlapping pairs, from the left
RECURSIVE ReplaceDouble(_)
ReplaceDouble(s) ==
    IF Len(s) < 2 THEN s
    ELSE IF s[1] = "-" /\ s[2] = "-" THEN <<"-">> \o ReplaceDouble(SubSeq(s, 3, Len(s)))
    ELSE <<s[1]>> \o ReplaceDouble(Tail(s))

\* (a single ReplaceAll pass instead of the loop)
Collapse_once(s) == ReplaceDouble(s)

\* for strings.Contains(slug, "--") { slug = strings.ReplaceAll(slug, "--", "-") }
RECURSIVE Collapse(_)
Collapse(s) == IF ContainsDouble(s) THEN Collapse(ReplaceDouble(s)) ELSE s

\* strings.TrimLeft, strings.TrimRight and strings.Trim with cutset "-"
RECURSIVE TrimLeft(_)
TrimLeft(s) == IF s # <<>> /\ Head(s) = "-" THEN TrimLeft(Tail(s)) ELSE s

RECURSIVE TrimRight(_)
TrimRight(s) == IF s # <<>> /\ s[Len(s)] = "-" THEN TrimRight(SubSeq(s, 1, Len(s) - 1)) ELSE s

Trim(s) == TrimRight(TrimLeft(s))

generateSlug(title) ==
    LET lower == [i \in DOMAIN title |-> ToLower(title[i])]
        hyphened == ReplaceAll(lower, " ", "-")
        result == Filter(hyphened)
    IN  Trim(Collapse(result))

\* The functions of the form are applied to inputs drawn at the start.
InitForm ==
    /\ posts = <<>>
    /\ seq = 0
    /\ now = 1
    /\ deleted = {}
    /\ closed = FALSE
    /\ once = Built
    /\ procs = [p \in Procs |-> Idle]
    /\ \E i \in FormInputs \cup {[NoArgs EXCEPT !.chars = t] : t \in TitleChars} :
          ret = [op |-> "Input", err |-> ErrNil, post |-> <<>>, list |-> <<>>,
                 text |-> <<>>, calls |-> <<>>, detail |-> "", in |-> i]

\* A form's fields go to the post builders, a title to generateSlug.
IsForm(i) == i.chars = <<>>
IsTitle(i) == i = [NoArgs EXCEPT !.chars = i.chars]

DoCreatePostFromInput ==
    /\ ret.op = "Input"
    /\ IsForm(ret.in)
    /\ ret' = [ret EXCEPT !.op = "CreatePostFromInput",
                          !.post = <<CreatePostFromInput(ret.in.title, ret.in.content,
                                                         ret.in.author, ret.in.slug)>>]
    /\ UNCHANGED <<posts, seq, now, deleted, closed, once, procs>>

DoToPost ==
    /\ ret.op = "Input"
    /\ IsForm(ret.in)
    /\ ret' = [ret EXCEPT !.op = "ToPost",
                          !.post = <<ToPost([Title |-> ret.in.title, Content |-> ret.in.content,
                                             Author |-> ret.in.author, Slug |-> ret.in.slug,
                                             Confirm |-> TRUE])>>]
    /\ UNCHANGED <<posts, seq, now, deleted, closed, once, procs>>

DoGenerateSlug ==
    /\ ret.op = "Input"
    /\ IsTitle(ret.in)
    /\ ret' = [ret EXCEPT !.op = "generateSlug", !.text = generateSlug(ret.in.chars)]
    /\ UNCHANGED <<posts, seq, now, deleted, closed, once, procs>>

NextForm ==
    \/ DoCreatePostFromInput
    \/ DoToPost
    \/ DoGenerateSlug

SpecForm == InitForm /\ [][NextForm]_vars

\* -------------------------------------------------------- posts handler
\* The text editor the handler was built with: whether it is available, how
\* it describes itself, and what an editing session ends in.
TextEditors ==
    {[available |-> FALSE, info |-> "nano (not found)", failed |-> FALSE, text |-> ""],
     [available |-> TRUE, info |-> "vim", failed |-> TRUE, text |-> ""],
     [available |-> TRUE, info |-> "vim", failed |-> FALSE, text |-> ""],
     [available |-> TRUE, info |-> "vim", failed |-> FALSE, text |-> "K"]}

ErrContentEmpty == "content cannot be empty when using editor"
ErrCreateFailed == "failed to create post"

\* How a session with text editor ed ends.
Session(ed) ==
    IF ~ed.available THEN "unavailable"
    ELSE IF ed.failed THEN "failed"
    ELSE IF ed.text = "" THEN "empty"
    ELSE "text"

\* (the row inserted before the editor is opened, to be filled in afterwards)
PostsCreatePostRun_early(ps, sq, t, title, author, slug, useEditor, ed) ==
    LET r == CreatePost(ps, sq, t, CreatePostFromInput(title, "", author, slug))
        edited == <<"IsAvailable:true", "EditContentWithTemplate">>
        stop(e, d, calls) ==
            [err |-> e, detail |-> d, post |-> <<>>, posts |-> r.posts, seq |-> r.seq,
             calls |-> calls]
    IN  IF r.err # ErrNil
        THEN [err |-> ErrCreateFailed, detail |-> r.err, post |-> <<>>, posts |-> ps,
              seq |-> sq, calls |-> <<>>]
        ELSE IF useEditor /\ ~ed.available
        THEN stop(ErrEditorMissing, ed.info, <<"IsAvailable:false", "GetEditorInfo">>)
        ELSE IF useEditor /\ ed.failed THEN stop(ErrEditFailed, "", edited)
        ELSE IF useEditor /\ ed.text = "" THEN stop(ErrContentEmpty, "", edited)
        ELSE [err |-> ErrNil, detail |-> "", post |-> r.post, posts |-> r.posts,
              seq |-> r.seq, calls |-> IF useEditor THEN edited ELSE <<>>]

\* (the availability check answered but not acted on)
PostsCreatePostRun_unchecked(ps, sq, t, title, author, slug, useEditor, ed) ==
    LET quit(e, d, calls) ==
            [err |-> e, detail |-> d, post |-> <<>>, posts |-> ps, seq |-> sq, calls |-> calls]
        edited == <<IF ed.available THEN "IsAvailable:true" ELSE "IsAvailable:false",
                    "EditContentWithTemplate">>
        content == IF useEditor THEN ed.text ELSE ""
        r == CreatePost(ps, sq, t, CreatePostFromInput(title, content, author, slug))
        calls == IF useEditor THEN edited ELSE <<>>
    IN  IF useEditor /\ ed.failed THEN quit(ErrEditFailed, "", edited)
        ELSE IF useEditor /\ content = "" THEN quit(ErrContentEmpty, "", edited)
        ELSE IF r.err # ErrNil THEN quit(ErrCreateFailed, r.err, calls)
        ELSE [err |-> ErrNil, detail |-> "", post |-> r.post, posts |-> r.posts,
              seq |-> r.seq, calls |-> calls]

\* Posts.CreatePost: the outcome on store ps at time t, with the calls made on
\* the text editor in their order.
PostsCreatePostRun(ps, sq, t, title, author, slug, useEditor, ed) ==
    LET quit(e, d, calls) ==
            [err |-> e, detail |-> d, post |-> <<>>, posts |-> ps, seq |-> sq, calls |-> calls]
        edited == <<"IsAvailable:true", "EditContentWithTemplate">>
        content == IF useEditor THEN ed.text ELSE ""
        r == CreatePost(ps, sq, t, CreatePostFromInput(title, content, author, slug))
        calls == IF useEditor THEN edited ELSE <<>>
    IN  IF useEditor /\ ~ed.available
        THEN quit(ErrEditorMissing, ed.info, <<"IsAvailable:false", "GetEditorInfo">>)
        ELSE IF useEditor /\ ed.failed THEN quit(ErrEditFailed, "", edited)
        ELSE IF useEditor /\ content = "" THEN quit(ErrContentEmpty, "", edited)
        ELSE IF r.err # ErrNil THEN quit(ErrCreateFailed, r.err, calls)
        ELSE [err |-> ErrNil, detail |-> "", post |-> r.post, posts |-> r.posts,
              seq |-> r.seq, calls |-> calls]

PostsCreatePost ==
    \E d \in Drafts, slug \in Slugs, useEditor \in BOOLEAN, ed \in TextEditors :
        LET title == d[1]
            author == d[3]
            r == PostsCreatePostRun(posts, seq, now, title, author, slug, useEditor, ed)
        IN  /\ seq < MaxId
            /\ posts' = r.posts
            /\ seq' = r.seq
            /\ ret' = [op |-> "Posts.CreatePost", err |-> r.err, post |-> r.post, list |-> <<>>,
                       text |-> <<>>, calls |-> r.calls, detail |-> r.detail,
                       in |-> [NoArgs EXCEPT !.title = title, !.author = author, !.slug = slug,
                                             !.useEditor = useEditor, !.editor = ed.info,
                                             !.session = IF useEditor THEN Session(ed)
                                                         ELSE "unused"]]
            /\ UNCHANGED <<now, deleted, closed, once, procs>>

\* The handler at work: posts are created through it, with and without the
\* editor, while time passes.
NextHandler ==
    \/ Tick
    \/ PostsCreatePost

SpecHandler == Init /\ [][NextHandler]_vars

\* ------------------------------------------------------ interactive create
\* A Go string as the sequence of its characters, and back, for the titles a
\* form is filled in with and the slugs generated from them.
Runes(s) ==
    CASE s = "" -> <<>>
      [] s = "B" -> <<"B">>
      [] s = "B 7" -> <<"B", " ", "7">>

String(chars) ==
    CASE chars = <<>> -> ""
      [] chars = <<"b">> -> "b"
      [] chars = <<"b", "-", "7">> -> "b-7"

\* strings.TrimSpace on the slugs a form is filled in with
TrimSpace(s) == IF s = " " THEN "" ELSE s

ErrUserCancelled == "user cancelled the operation"
ErrFormRun == "form run failed"
ErrNoTTY == "interactive mode requires a TTY"
ErrFormContentEmpty == "content cannot be empty"

\* What running the form leaves: an error of the form library, or the fields
\* as the user left them, confirmed or not.  The title field accepts no blank
\* title.
FormData ==
    [Title : {"B", "B 7"}, Content : {"", "K"}, Author : {"C"},
     Slug : {"", " ", "s"}, Confirm : BOOLEAN]

FormRuns == {[err |-> ErrFormRun, data |-> <<>>]} \cup {[err |-> ErrNil, data |-> <<d>>] : d \in FormData}

\* (the confirmation not looked at)
NewPostForm_unconfirmed(useEditor, run, ed) ==
    LET data == run.data[1]
        quit(e, d, calls) == [err |-> e, detail |-> d, data |-> <<>>, calls |-> calls]
        edited == <<"form.Run", "IsAvailable:true", "EditContentWithTemplate">>
        content == IF useEditor THEN ed.text ELSE data.Content
        slug == IF TrimSpace(data.Slug) = "" THEN String(generateSlug(Runes(data.Title)))
                ELSE data.Slug
    IN  IF run.err # ErrNil THEN quit(run.err, "", <<"form.Run">>)
        ELSE IF useEditor /\ ~ed.available
        THEN quit(ErrEditorMissing, ed.info, <<"form.Run", "IsAvailable:false", "GetEditorInfo">>)
        ELSE IF useEditor /\ ed.failed THEN quit(ErrEditFailed, "", edited)
        ELSE IF useEditor /\ content = "" THEN quit(ErrFormContentEmpty, "", edited)
        ELSE [err |-> ErrNil, detail |-> "",
              data |-> <<[data EXCEPT !.Content = content, !.Slug = slug]>>,
              calls |-> IF useEditor THEN edited ELSE <<"form.Run">>]

\* forms.NewPostForm: the form is run, and when it was confirmed the editor is
\* opened for the content and an empty slug is generated from the title.
NewPostForm(useEditor, run, ed) ==
    LET data == run.data[1]
        quit(e, d, calls) == [err |-> e, detail |-> d, data |-> <<>>, calls |-> calls]
        edited == <<"form.Run", "IsAvailable:true", "EditContentWithTemplate">>
        content == IF useEditor THEN ed.text ELSE data.Content
        slug == IF TrimSpace(data.Slug) = "" THEN String(generateSlug(Runes(data.Title)))
                ELSE data.Slug
    IN  IF run.err # ErrNil THEN quit(run.err, "", <<"form.Run">>)
        ELSE IF ~data.Confirm THEN quit(ErrUserCancelled, "", <<"form.Run">>)
        ELSE IF useEditor /\ ~ed.available
        THEN quit(ErrEditorMissing, ed.info, <<"form.Run", "IsAvailable:false", "GetEditorInfo">>)
        ELSE IF useEditor /\ ed.failed THEN quit(ErrEditFailed, "", edited)
        ELSE IF useEditor /\ content = "" THEN quit(ErrFormContentEmpty, "", edited)
        ELSE [err |-> ErrNil, detail |-> "",
              data |-> <<[data EXCEPT !.Content = content, !.Slug = slug]>>,
              calls |-> IF useEditor THEN edited ELSE <<"form.Run">>]

\* createPostInteractive on store ps at time t: contentFlag is the --content
\* flag (empty when it was not given), which decides whether the editor is used.
createPostInteractiveRun(ps, sq, t, contentFlag, run, ed) ==
    LET useEditor == contentFlag = ""
        formData == NewPostForm(useEditor, run, ed)
        r == CreatePost(ps, sq, t, ToPost(formData.data[1]))
        quit(e, d, calls) ==
            [err |-> e, detail |-> d, post |-> <<>>, posts |-> ps, seq |-> sq, calls |-> calls]
        stored == formData.calls \o <<"GetDatabase", "CreatePost">>
    IN  IF formData.err = ErrUserCancelled THEN quit(ErrNil, "", formData.calls)
        ELSE IF formData.err # ErrNil THEN quit(ErrNoTTY, formData.err, formData.calls)
        ELSE IF r.err # ErrNil THEN quit(ErrCreateFailed, r.err, stored)
        ELSE [err |-> ErrNil, detail |-> "", post |-> r.post, posts |-> r.posts,
              seq |-> r.seq, calls |-> stored]

createPostInteractive ==
    \E contentFlag \in {"", "K"}, run \in FormRuns :
      \E ed \in IF contentFlag = "" THEN TextEditors ELSE {e \in TextEditors : ~e.available} :
        LET r == createPostInteractiveRun(posts, seq, now, contentFlag, run, ed)
        IN  /\ seq < MaxId
            /\ posts' = r.posts
            /\ seq' = r.seq
            /\ ret' = [op |-> "createPostInteractive", err |-> r.err, post |-> r.post,
                       list |-> <<>>, text |-> <<>>, calls |-> r.calls, detail |-> r.detail,
                       in |-> [NoArgs EXCEPT
                                 !.content = contentFlag,
                                 !.form = IF run.err # ErrNil THEN "error"
                                          ELSE IF run.data[1].Confirm THEN "confirmed"
                                          ELSE "declined"]]
            /\ UNCHANGED <<now, deleted, closed, once, procs>>

\* Interactive create at work, while time passes.
NextInteractive ==
    \/ Tick
    \/ createPostInteractive

SpecInteractive == Init /\ [][NextInteractive]_vars

\* ------------------------------------------------- contexts that end early
ErrCanceled == "context canceled"
ErrDeadlineExceeded == "context deadline exceeded"
CtxErrs == {ErrCanceled, ErrDeadlineExceeded}

\* The context an operation is called with: it stays live, or it is cancelled
\* or runs past its deadline before one of the operation's statements (named
\* in points) completes.
Contexts(points) ==
    {[at |-> "never", err |-> ErrNil]} \cup {[at |-> p, err |-> e] : p \in points, e \in CtxErrs}

\* ExecContext and QueryRowContext: a statement whose context ends before it
\* completes reports the context's error and has no effect.
CreatePostCtx(ps, sq, t, post, ctx) ==
    IF ctx.at = "write"
    THEN [err |-> ctx.err, post |-> <<>>, posts |-> ps, seq |-> sq]
    ELSE CreatePost(ps, sq, t, post)

\* (a statement interrupted after it wrote)
UpdatePostByIDCtx_applied(ps, t, id, updates, ctx) ==
    LET r == UpdatePostByID(ps, t, id, updates)
    IN  IF ctx.at \in {"write", "readback"} /\ r.err = ErrNil
        THEN [err |-> ctx.err, post |-> <<>>, posts |-> r.posts]
        ELSE IF ctx.at = "write" THEN [err |-> ctx.err, post |-> <<>>, posts |-> ps]
        ELSE r

\* UpdatePostByID is the UPDATE statement followed by GetPostByID reading the
\* row back; the read is not reached when no row was affected.
UpdatePostByIDCtx(ps, t, id, updates, ctx) ==
    LET r == UpdatePostByID(ps, t, id, updates)
    IN  IF ctx.at = "write" THEN [err |-> ctx.err, post |-> <<>>, posts |-> ps]
        ELSE IF ctx.at = "readback" /\ r.err = ErrNil
        THEN [err |-> ctx.err, post |-> <<>>, posts |-> r.posts]
        ELSE r

\* UpdatePostBySlug is GetPostBySlug followed by UpdatePostByID.
UpdatePostBySlugCtx(ps, t, slug, updates, ctx) ==
    LET existingPost == GetPostBySlug(ps, slug)
    IN  IF ctx.at = "lookup" THEN [err |-> ctx.err, post |-> <<>>, posts |-> ps]
        ELSE IF existingPost.err # ErrNil
        THEN [err |-> existingPost.err, post |-> <<>>, posts |-> ps]
        ELSE UpdatePostByIDCtx(ps, t, existingPost.post[1].ID, updates, ctx)

DeletePostByIDCtx(ps, id, ctx) ==
    IF ctx.at = "write" THEN [err |-> ctx.err, posts |-> ps, gone |-> {}]
    ELSE DeletePostByID(ps, id)

DeletePostBySlugCtx(ps, slug, ctx) ==
    IF ctx.at = "write" THEN [err |-> ctx.err, posts |-> ps, gone |-> {}]
    ELSE DeletePostBySlug(ps, slug)

\* The slugs and the new field values the operations are called with here.
CtxSlugs == {"", "s"}
CtxUpdates == {<<"Z", "B", "C">>}

DoCreatePostCtx ==
    \E d \in Drafts, slug \in CtxSlugs, ctx \in Contexts({"write"}) :
        LET r == CreatePostCtx(posts, seq, now, CreatePostFromInput(d[1], d[2], d[3], slug), ctx)
        IN  /\ seq < MaxId
            /\ posts' = r.posts
            /\ seq' = r.seq
            /\ ret' = [op |-> "CreatePost", err |-> r.err, post |-> r.post, list |-> <<>>,
                       text |-> <<>>, calls |-> <<>>, detail |-> "",
                       in |-> [NoArgs EXCEPT !.title = d[1], !.content = d[2], !.author = d[3],
                                             !.slug = slug, !.cancel = ctx.at]]
            /\ UNCHANGED <<now, deleted, closed, once, procs>>

DoUpdatePostByIDCtx ==
    \E id \in IdInputs, d \in CtxUpdates, ctx \in Contexts({"write", "readback"}) :
        LET r == UpdatePostByIDCtx(posts, now, id, CreatePostFromInput(d[1], d[2], d[3], ""), ctx)
        IN  /\ posts' = r.posts
            /\ ret' = [op |-> "UpdatePostByID", err |-> r.err, post |-> r.post, list |-> <<>>,
                       text |-> <<>>, calls |-> <<>>, detail |-> "",
                       in |-> [NoArgs EXCEPT !.title = d[1], !.content = d[2], !.author = d[3],
                                             !.id = id, !.cancel = ctx.at]]
            /\ UNCHANGED <<seq, now, deleted, closed, once, procs>>

DoUpdatePostBySlugCtx ==
    \E slug \in CtxSlugs, d \in CtxUpdates, ctx \in Contexts({"lookup", "write", "readback"}) :
        LET r == UpdatePostBySlugCtx(posts, now, slug, CreatePostFromInput(d[1], d[2], d[3], ""), ctx)
        IN  /\ posts' = r.posts
            /\ ret' = [op |-> "UpdatePostBySlug", err |-> r.err, post |-> r.post, list |-> <<>>,
                       text |-> <<>>, calls |-> <<>>, detail |-> "",
                       in |-> [NoArgs EXCEPT !.title = d[1], !.content = d[2], !.author = d[3],
                                             !.slug = slug, !.cancel = ctx.at]]
            /\ UNCHANGED <<seq, now, deleted, closed, once, procs>>

DoDeletePostByIDCtx ==
    \E id \in IdInputs, ctx \in Contexts({"write"}) :
        LET r == DeletePostByIDCtx(posts, id, ctx)
        IN  /\ posts' = r.posts
            /\ deleted' = deleted \cup r.gone
            /\ ret' = [op |-> "DeletePostByID", err |-> r.err, post |-> <<>>, list |-> <<>>,
                       text |-> <<>>, calls |-> <<>>, detail |-> "",
                       in |-> [NoArgs EXCEPT !.id = id, !.cancel = ctx.at]]
            /\ UNCHANGED <<seq, now, closed, once, procs>>

DoDeletePostBySlugCtx ==
    \E slug \in CtxSlugs, ctx \in Contexts({"write"}) :
        LET r == DeletePostBySlugCtx(posts, slug, ctx)
        IN  /\ posts' = r.posts
            /\ deleted' = deleted \cup r.gone
            /\ ret' = [op |-> "DeletePostBySlug", err |-> r.err, post |-> <<>>, list |-> <<>>,
                       text |-> <<>>, calls |-> <<>>, detail |-> "",
                       in |-> [NoArgs EXCEPT !.slug = slug, !.cancel = ctx.at]]
            /\ UNCHANGED <<seq, now, closed, once, procs>>

\* The writing operations called with contexts that may end early, on a
\* store of at most two posts.
NextCtx ==
    \/ Tick
    \/ DoCreatePostCtx /\ Cardinality(DOMAIN posts) < 2
    \/ DoUpdatePostByIDCtx
    \/ DoUpdatePostBySlugCtx
    \/ DoDeletePostByIDCtx
    \/ DoDeletePostBySlugCtx

SpecCtx == Init /\ [][NextCtx]_vars

\* ------------------------------------------------------- a closed store
\* Close closes the sql.DB handle; every statement on a closed handle fails
\* with this error.
ErrClosed == "sql: database is closed"

StoreOps ==
    {"CreatePost", "GetPostByID", "GetPostBySlug", "UpdatePostByID", "UpdatePostBySlug",
     "DeletePostByID", "DeletePostBySlug", "ListPosts"}

\* (only the listing looks at the handle)
ClosedCall_listonly(ps, sq, t, op, id) ==
    IF op = "ListPosts" THEN [err |-> ErrClosed, posts |-> ps, gone |-> {}]
    ELSE IF op = "DeletePostByID" THEN DeletePostByID(ps, id)
    ELSE [err |-> ErrNil, posts |-> ps, gone |-> {}]

\* A store operation on a closed handle: its first statement fails, and every
\* operation returns that error without doing anything else.
ClosedCall(ps, sq, t, op, id) == [err |-> ErrClosed, posts |-> ps, gone |-> {}]

DoClose ==
    /\ closed' = TRUE
    /\ ret' = [op |-> "Close", err |-> ErrNil, post |-> <<>>, list |-> <<>>, text |-> <<>>,
               calls |-> <<>>, detail |-> "", in |-> NoArgs]
    /\ UNCHANGED <<posts, seq, now, deleted, once, procs>>

DoCallClosed ==
    \E op \in StoreOps, id \in IdInputs :
        LET r == ClosedCall(posts, seq, now, op, id)
        IN  /\ closed
            /\ posts' = r.posts
            /\ deleted' = deleted \cup r.gone
            /\ ret' = [op |-> op, err |-> r.err, post |-> <<>>, list |-> <<>>, text |-> <<>>,
                       calls |-> <<>>, detail |-> "", in |-> [NoArgs EXCEPT !.id = id]]
            /\ UNCHANGED <<seq, now, closed, once, procs>>

\* A store that is written to while it is open, and closed at some point.
NextClose ==
    \/ Tick
    \/ ~closed /\ DoCreatePost
    \/ ~closed /\ DoDeletePostByID
    \/ DoClose
    \/ DoCallClosed

SpecClose == Init /\ [][NextClose]_vars

\* ------------------------------------------------------------ GetDatabase
\* The databaseURL values callers pass, and the error of a New that fails.
Urls == {"", "x.db"}
ErrOpen == "unable to open database file"

\* The store New constructs on its n-th run.
InstanceOf(n) == IF n = 1 THEN "db1" ELSE "db2"

\* (a gate that never closes)
OnceDone_never(o) == FALSE

\* sync.Once: whether the function passed to Do has already run.
OnceDone(o) == o.done

\* Nothing constructed yet: instance is nil and once has not run.
InitConn ==
    /\ posts = <<>>
    /\ seq = 0
    /\ now = 1
    /\ deleted = {}
    /\ closed = FALSE
    /\ once = [done |-> FALSE, instance |-> "nil", built |-> <<>>]
    /\ procs = [p \in Procs |-> Idle]
    /\ ret = [op |-> "Start", err |-> ErrNil, post |-> <<>>, list |-> <<>>, text |-> <<>>,
              calls |-> <<>>, detail |-> "", in |-> NoArgs]

\* A caller enters GetDatabase: its err is nil.
GetDatabaseCall(p) ==
    \E url \in Urls :
        /\ procs[p].pc \in {"idle", "returned"}
        /\ procs' = [procs EXCEPT ![p] = [Idle EXCEPT !.pc = "call", !.url = url]]
        /\ UNCHANGED <<posts, seq, now, ret, deleted, closed, once>>

\* once.Do lets one caller in to run the function while it has not run.
OnceDoEnter(p) ==
    /\ procs[p].pc = "call"
    /\ ~OnceDone(once)
    /\ \A q \in Procs : procs[q].pc # "new"
    /\ procs' = [procs EXCEPT ![p].pc = "new"]
    /\ UNCHANGED <<posts, seq, now, ret, deleted, closed, once>>

\* The function runs New and assigns instance and the caller's err; once.Do
\* marks the gate done whatever New returned, and the caller returns.
OnceDoNew(p) ==
    \E ok \in BOOLEAN :
        LET store == IF ok THEN InstanceOf(Len(once.built) + 1) ELSE "nil"
            err == IF ok THEN ErrNil ELSE ErrOpen
        IN  /\ procs[p].pc = "new"
            /\ once' = [done |-> TRUE, instance |-> store,
                        built |-> Append(once.built, procs[p].url)]
            /\ procs' = [procs EXCEPT ![p].pc = "returned", ![p].err = err,
                                      ![p].instance = store]
            /\ ret' = [op |-> "GetDatabase", err |-> err, post |-> <<>>, list |-> <<>>,
                       text |-> <<>>, calls |-> <<"New">>, detail |-> store, in |-> NoArgs]
            /\ UNCHANGED <<posts, seq, now, deleted, closed>>

\* once.Do returns at once when the function has run; the caller returns the
\* instance and its own err, which nothing has assigned.
GetDatabaseReturn(p) ==
    /\ procs[p].pc = "call"
    /\ OnceDone(once)
    /\ procs' = [procs EXCEPT ![p].pc = "returned", ![p].instance = once.instance]
    /\ ret' = [op |-> "GetDatabase", err |-> procs[p].err, post |-> <<>>, list |-> <<>>,
               text |-> <<>>, calls |-> <<>>, detail |-> once.instance, in |-> NoArgs]
    /\ UNCHANGED <<posts, seq, now, deleted, closed, once>>

NextConn ==
    \E p \in Procs :
        \/ GetDatabaseCall(p)
        \/ OnceDoEnter(p)
        \/ OnceDoNew(p)
        \/ GetDatabaseReturn(p)

SpecConn == InitConn /\ [][NextConn]_vars

\* ------------------------------------------------------ concurrent updates
\* The Post value an update is called with, told by its title.
UpdatesOf(title) ==
    LET d == CHOOSE x \in Drafts : x[1] = title
    IN  CreatePostFromInput(d[1], d[2], d[3], "")

\* UpdatePostBySlug, first statement: GetPostBySlug finds the id, or the call
\* returns its error.
UpdatePostBySlugLookup(p) ==
    \E slug \in CtxSlugs, d \in Drafts :
        LET existingPost == GetPostBySlug(posts, slug)
        IN  /\ procs[p].pc = "idle"
            /\ IF existingPost.err # ErrNil
               THEN /\ ret' = [op |-> "UpdatePostBySlug", err |-> existingPost.err, post |-> <<>>,
                               list |-> <<>>, text |-> <<>>, calls |-> <<"GetPostBySlug">>,
                               detail |-> "",
                               in |-> [NoArgs EXCEPT !.slug = slug, !.title = d[1]]]
                    /\ UNCHANGED procs
               ELSE /\ procs' = [procs EXCEPT ![p] =
                                    [Idle EXCEPT !.pc = "update", !.op = "UpdatePostBySlug",
                                                 !.id = existingPost.post[1].ID,
                                                 !.slug = slug, !.title = d[1]]]
                    /\ UNCHANGED ret
            /\ UNCHANGED <<posts, seq, now, deleted, closed, once>>

\* A caller enters UpdatePostByID.
UpdatePostByIDCall(p) ==
    \E id \in 1 .. MaxId, d \in Drafts :
        /\ procs[p].pc = "idle"
        /\ procs' = [procs EXCEPT ![p] =
                        [Idle EXCEPT !.pc = "update", !.op = "UpdatePostByID", !.id = id,
                                     !.title = d[1]]]
        /\ UNCHANGED <<posts, seq, now, ret, deleted, closed, once>>

\* The UPDATE statement of UpdatePostByID: when it affects no row the call
\* returns not-found, else the row is read back next.
ExecUpdate(p) ==
    LET me == procs[p]
        r == UpdatePostByID(posts, now, me.id, UpdatesOf(me.title))
    IN  /\ me.pc = "update"
        /\ posts' = r.posts
        /\ IF r.err # ErrNil
           THEN /\ ret' = [op |-> me.op, err |-> r.err, post |-> <<>>, list |-> <<>>,
                           text |-> <<>>, calls |-> <<"UPDATE">>, detail |-> "",
                           in |-> [NoArgs EXCEPT !.id = me.id, !.slug = me.slug,
                                                 !.title = me.title]]
                /\ procs' = [procs EXCEPT ![p] = Idle]
           ELSE /\ procs' = [procs EXCEPT ![p].pc = "readback"]
                /\ UNCHANGED ret
        /\ UNCHANGED <<seq, now, deleted, closed, once>>

\* The last statement of UpdatePostByID: GetPostByID reads the row back.
ReadBack(p) ==
    LET me == procs[p]
        r == GetPostByID(posts, me.id)
    IN  /\ me.pc = "readback"
        /\ ret' = [op |-> me.op, err |-> r.err, post |-> r.post, list |-> <<>>,
                   text |-> <<>>, calls |-> <<"UPDATE", "GetPostByID">>, detail |-> "",
                   in |-> [NoArgs EXCEPT !.id = me.id, !.slug = me.slug, !.title = me.title]]
        /\ procs' = [procs EXCEPT ![p] = Idle]
        /\ UNCHANGED <<posts, seq, now, deleted, closed, once>>

\* A caller updates by slug while posts are created, updated and deleted by
\* others: a store of at most two posts, created with one title and the slugs
\* looked up here, and the deletes and updates that find their post.
NextRaceSlug ==
    \/ Tick
    \/ DoCreatePost /\ Cardinality(DOMAIN posts) < 2 /\ ret'.in.title = "A" /\ ret'.in.slug \in CtxSlugs
    \/ DoDeletePostByID /\ ret'.err = ErrNil
    \/ DoUpdatePostByID /\ ret'.err = ErrNil
    \/ UpdatePostBySlugLookup("p1")
    \/ ExecUpdate("p1")
    \/ ReadBack("p1")

SpecRaceSlug == Init /\ [][NextRaceSlug]_vars

\* Two callers update by id while posts are created, with one title and no
\* slug.
NextRaceID ==
    \/ Tick
    \/ DoCreatePost /\ Cardinality(DOMAIN posts) < 2 /\ ret'.in.title = "A" /\ ret'.in.slug = ""
    \/ \E p \in Procs :
          \/ UpdatePostByIDCall(p)
          \/ ExecUpdate(p)
          \/ ReadBack(p)

SpecRaceID == Init /\ [][NextRaceID]_vars

\* ---------------------------------------------------------- all operations
\* Every operation of the store, on a store of at most two posts.
NextAll ==
    \/ Tick
    \/ DoCreatePost /\ Cardinality(DOMAIN posts) < 2
    \/ DoGetPostByID
    \/ DoGetPostBySlug
    \/ DoUpdatePostByID
    \/ DoUpdatePostBySlug
    \/ DoDeletePostByID
    \/ DoDeletePostBySlug
    \/ DoListPosts

SpecAll == Init /\ [][NextAll]_vars

\* --------------------------------------------------------- delete command
ErrDeleteNoIdent == "either --id or --slug flag must be set"
ErrDeleteFailed == "failed to delete post"
DeleteFlags == SUBSET {"id", "slug", "verbose", "force"}

\* (the confirmation not asked for)
deletePostRun_forced(ps, flags, id, slug) ==
    LET byID == DeletePostByID(ps, id)
        bySlug == DeletePostBySlug(ps, slug)
        r == IF "id" \in flags THEN byID ELSE bySlug
        said == IF "verbose" \in flags THEN <<"Deleting post">> ELSE <<>>
        call == IF "id" \in flags THEN "DeletePostByID" ELSE "DeletePostBySlug"
    IN  IF {"id", "slug"} \cap flags = {}
        THEN [err |-> ErrDeleteNoIdent, detail |-> "", posts |-> ps, gone |-> {}, calls |-> <<>>, out |-> <<>>]
        ELSE IF {"id", "slug"} \subseteq flags
        THEN [err |-> ErrBothIdent, detail |-> "", posts |-> ps, gone |-> {}, calls |-> <<>>, out |-> <<>>]
        ELSE IF r.err # ErrNil
        THEN [err |-> ErrDeleteFailed, detail |-> r.err, posts |-> ps, gone |-> {},
              calls |-> <<"GetDatabase", call>>, out |-> said]
        ELSE [err |-> ErrNil, detail |-> "", posts |-> r.posts, gone |-> r.gone,
              calls |-> <<"GetDatabase", call>>, out |-> said \o <<"deleted successfully">>]

\* deletePost with the flags that were given: one of --id and --slug, and
\* without --force a notice instead of the delete.
deletePostRun(ps, flags, id, slug) ==
    LET byID == DeletePostByID(ps, id)
        bySlug == DeletePostBySlug(ps, slug)
        r == IF "id" \in flags THEN byID ELSE bySlug
        said == IF "verbose" \in flags THEN <<"Deleting post">> ELSE <<>>
        call == IF "id" \in flags THEN "DeletePostByID" ELSE "DeletePostBySlug"
    IN  IF {"id", "slug"} \cap flags = {}
        THEN [err |-> ErrDeleteNoIdent, detail |-> "", posts |-> ps, gone |-> {}, calls |-> <<>>, out |-> <<>>]
        ELSE IF {"id", "slug"} \subseteq flags
        THEN [err |-> ErrBothIdent, detail |-> "", posts |-> ps, gone |-> {}, calls |-> <<>>, out |-> <<>>]
        ELSE IF "force" \notin flags
        THEN [err |-> ErrNil, detail |-> "", posts |-> ps, gone |-> {},
              calls |-> <<"GetDatabase">>, out |-> said \o <<"Are you sure">>]
        ELSE IF r.err # ErrNil
        THEN [err |-> ErrDeleteFailed, detail |-> r.err, posts |-> ps, gone |-> {},
              calls |-> <<"GetDatabase", call>>, out |-> said]
        ELSE [err |-> ErrNil, detail |-> "", posts |-> r.posts, gone |-> r.gone,
              calls |-> <<"GetDatabase", call>>, out |-> said \o <<"deleted successfully">>]

deletePost ==
    \E flags \in DeleteFlags, id \in IdInputs, slug \in Slugs :
        LET r == deletePostRun(posts, flags, id, slug)
        IN  /\ "id" \notin flags => id = 0
            /\ "slug" \notin flags => slug = ""
            /\ posts' = r.posts
            /\ deleted' = deleted \cup r.gone
            /\ ret' = [op |-> "deletePost", err |-> r.err, post |-> <<>>, list |-> <<>>,
                       text |-> r.out, calls |-> r.calls, detail |-> r.detail,
                       in |-> [NoArgs EXCEPT !.flags = flags, !.id = id, !.slug = slug]]
            /\ UNCHANGED <<seq, now, closed, once, procs>>

\* The delete command run on a store of at most two posts, created with one
\* title.
NextDelete ==
    \/ Tick
    \/ DoCreatePost /\ Cardinality(DOMAIN posts) < 2 /\ ret'.in.title = "A"
    \/ deletePost

SpecDelete == Init /\ [][NextDelete]_vars

\* ---------------------------------------------------------------- claims
\* How a stored nullable column relates to the input string it was built from:
\* absent for the empty string, present with exactly the string otherwise.
Matches(ns, s) == IF s = "" THEN ~ns.Valid ELSE ns.Valid /\ ns.String = s

\* The ids of the stored posts whose slug is present and equal to slug.
HoldersOf(ps, slug) == {i \in DOMAIN ps : ps[i].Slug.Valid /\ ps[i].Slug.String = slug}

\* The step is a call of operation op: every call records its name in ret and
\* reads the clock without moving it (used where only the passing of time
\* leaves ret alone).
Called(op) == ret'.op = op /\ now' = now

\* C1: no two distinct stored posts hold the same present slug, whatever
\* sequence of creates, updates and deletes led to the state.
C1_SlugsDistinct ==
    \A i, j \in DOMAIN posts :
        (i # j /\ posts[i].Slug.Valid /\ posts[j].Slug.Valid)
            => posts[i].Slug.String # posts[j].Slug.String

\* Two posts with present slugs are stored side by side.
C1_Witness ==
    \E i, j \in DOMAIN posts : i # j /\ posts[i].Slug.Valid /\ posts[j].Slug.Valid

\* C2: a create whose slug is present and already held by a stored post fails
\* with an error, returns no post and leaves the stored posts as they were.
C2_DuplicateSlugRejected ==
    [][(Called("CreatePost") /\ HoldersOf(posts, ret'.in.slug) # {})
          => (ret'.err # ErrNil /\ ret'.post = <<>> /\ posts' = posts)]_vars

\* A create was refused for its slug while a post holding that slug is stored.
C2_Witness ==
    /\ ret.op = "CreatePost"
    /\ ret.err = ErrUnique
    /\ HoldersOf(posts, ret.in.slug) # {}

\* C3: a create built from an empty slug input succeeds however many stored
\* posts were created with an empty slug input, and those posts coexist.
C3_EmptySlugAlwaysAccepted ==
    (ret.op = "CreatePost" /\ ret.in.slug = "")
        => (ret.err = ErrNil /\ ret.post # <<>> /\ ret.post[1].ID \in DOMAIN posts)

\* A slug-less create has just succeeded next to another slug-less post.
C3_Witness ==
    /\ ret.op = "CreatePost"
    /\ ret.in.slug = ""
    /\ ret.err = ErrNil
    /\ Cardinality({i \in DOMAIN posts : ~posts[i].Slug.Valid}) >= 2

\* C4: after a successful create, GetByID on the returned id yields a post with
\* the input title and with content, author and slug matching the inputs, an
\* empty input standing for an absent field.
C4_CreateGetRoundTrip ==
    (ret.op = "CreatePost" /\ ret.err = ErrNil)
        => LET got == GetPostByID(posts, ret.post[1].ID)
           IN  /\ got.err = ErrNil
               /\ got.post # <<>>
               /\ got.post[1].Title = ret.in.title
               /\ Matches(got.post[1].Content, ret.in.content)
               /\ Matches(got.post[1].Author, ret.in.author)
               /\ Matches(got.post[1].Slug, ret.in.slug)

\* A create with empty content and author inputs and a present slug has
\* succeeded.
C4_Witness ==
    /\ ret.op = "CreatePost"
    /\ ret.err = ErrNil
    /\ ret.in.content = ""
    /\ ret.in.author = ""
    /\ ret.in.slug # ""

\* C5: DeleteByID with an id that matches no stored post returns success and
\* leaves every stored post unchanged.
C5_DeleteMissingIDSucceeds ==
    [][(Called("DeletePostByID") /\ ret'.in.id \notin DOMAIN posts)
          => (ret'.err = ErrNil /\ posts' = posts)]_vars

\* C6: a post removed by a successful delete never comes back: in every later
\* state GetByID on its id is not-found and no List returns it.
C6_DeletedStaysGone ==
    \A id \in deleted :
        /\ GetPostByID(posts, id).err = ErrNotFound
        /\ \A ord \in Orderings(posts), limit \in Limits, offset \in Offsets :
              LET l == ListPosts(posts, ord, limit, offset).posts
              IN  \A k \in DOMAIN l : l[k].ID # id

\* A create has succeeded after some post was deleted.
C6_Witness ==
    /\ deleted # {}
    /\ ret.op = "CreatePost"
    /\ ret.err = ErrNil
    /\ posts # <<>>

\* C7: an update command given only some of title, content and author changes
\* exactly those: each field that was not given keeps the value it had.
C7_UnsuppliedFieldsKept ==
    [][(Called("updatePost") /\ ret'.err = ErrNil)
          => LET id == ret'.post[1].ID
             IN  /\ id \in DOMAIN posts
                 /\ "title" \notin ret'.in.flags => posts'[id].Title = posts[id].Title
                 /\ ({"content", "editor"} \cap ret'.in.flags = {})
                       => NullStringToString(posts'[id].Content) = NullStringToString(posts[id].Content)
                 /\ "author" \notin ret'.in.flags
                       => NullStringToString(posts'[id].Author) = NullStringToString(posts[id].Author)]_vars

\* C8: every successful UpdateByID moves updated_at strictly forward.
C8_UpdatedAtStrictlyLater ==
    [][(Called("UpdatePostByID") /\ ret'.err = ErrNil)
          => posts'[ret'.in.id].UpdatedAt > posts[ret'.in.id].UpdatedAt]_vars

\* The post an update call aims at, looked up before the call.
TargetOf(ps, r) ==
    IF r.op = "UpdatePostByID" THEN {r.in.id} \cap DOMAIN ps ELSE HoldersOf(ps, r.in.slug)

\* C9: a successful UpdateByID or UpdateBySlug leaves the id, slug and
\* created_at of its target as they were.
C9_UpdateKeepsIdSlugCreatedAt ==
    [][((Called("UpdatePostByID") \/ Called("UpdatePostBySlug")) /\ ret'.err = ErrNil)
          => /\ TargetOf(posts, ret') # {}
             /\ \A id \in TargetOf(posts, ret') :
                   /\ id \in DOMAIN posts'
                   /\ posts'[id].ID = posts[id].ID
                   /\ posts'[id].Slug = posts[id].Slug
                   /\ posts'[id].CreatedAt = posts[id].CreatedAt
                   /\ ret'.post = <<posts'[id]>>]_vars

\* An update by slug has succeeded on a post created at an earlier time.
C9_Witness ==
    /\ ret.op = "UpdatePostBySlug"
    /\ ret.err = ErrNil
    /\ ret.post # <<>>
    /\ ret.post[1].Slug.Valid
    /\ ret.post[1].UpdatedAt > ret.post[1].CreatedAt

\* C10: UpdateByID with an unmatched id and UpdateBySlug with an unmatched
\* slug fail with not-found, return no post and change no stored post.
C10_UpdateMissingNotFound ==
    [][((Called("UpdatePostByID") \/ Called("UpdatePostBySlug")) /\ TargetOf(posts, ret') = {})
          => (ret'.err = ErrNotFound /\ ret'.post = <<>> /\ posts' = posts)]_vars

\* An update by slug has failed on a slug no stored post holds, while posts
\* are stored.
C10_Witness ==
    /\ ret.op = "UpdatePostBySlug"
    /\ ret.err = ErrNotFound
    /\ ret.in.slug # ""
    /\ posts # <<>>

\* C11: GetByID returns the stored post with the id when there is one, and
\* fails with not-found and no post for every other id, 0 and negative ids
\* included.
C11_GetByIDFindsExactlyStored ==
    [][Called("GetPostByID")
          => IF ret'.in.id \in DOMAIN posts
             THEN ret'.err = ErrNil /\ ret'.post = <<posts[ret'.in.id]>>
                  /\ ret'.post[1].ID = ret'.in.id
             ELSE ret'.err = ErrNotFound /\ ret'.post = <<>>]_vars

\* GetByID was asked for 0 or a negative id while posts are stored, and
\* answered not-found.
C11_Witness ==
    /\ ret.op = "GetPostByID"
    /\ ret.in.id <= 0
    /\ posts # <<>>
    /\ ret.err = ErrNotFound

\* C12: GetBySlug("") fails with not-found and returns no post in every
\* reachable state, also while posts created without a slug are stored.
C12_EmptySlugNeverFound ==
    [][(Called("GetPostBySlug") /\ ret'.in.slug = "")
          => (ret'.err = ErrNotFound /\ ret'.post = <<>>)]_vars

\* GetBySlug("") has answered not-found while a post created without a slug
\* is stored.
C12_Witness ==
    /\ ret.op = "GetPostBySlug"
    /\ ret.in.slug = ""
    /\ ret.err = ErrNotFound
    /\ \E i \in DOMAIN posts : ~posts[i].Slug.Valid

C14_IdsNeverReused ==
    [][(Called("CreatePost") /\ ret'.err = ErrNil)
          => /\ \A i \in DOMAIN posts \cup deleted : ret'.post[1].ID > i
             /\ DOMAIN posts' = DOMAIN posts \cup {ret'.post[1].ID}]_vars

\* A create has succeeded in a store emptied by deletes.
C14_Witness ==
    /\ ret.op = "CreatePost"
    /\ ret.err = ErrNil
    /\ deleted # {}
    /\ Cardinality(DOMAIN posts) = 1

\* C15: List with limit <= 0, limit = 0 included, returns every stored post,
\* ordered by ascending id.
C15_NonPositiveLimitListsAll ==
    (ret.op = "ListPosts" /\ ret.in.limit <= 0)
        => /\ ret.err = ErrNil
           /\ Len(ret.list) = Cardinality(DOMAIN posts)
           /\ \A i \in DOMAIN posts : \E k \in DOMAIN ret.list : ret.list[k] = posts[i]
           /\ \A k, l \in DOMAIN ret.list : k < l => ret.list[k].ID < ret.list[l].ID

Min(a, b) == IF a <= b THEN a ELSE b
Max(a, b) == IF a >= b THEN a ELSE b

\* C16: for limit > 0 and offset >= 0 with n stored posts, List returns the
\* posts at positions offset .. offset+limit-1 of the stored posts in
\* descending created_at order: min(limit, max(0, n - offset)) posts, and the
\* empty list without error when offset >= n.
C16_ListPage ==
    (ret.op = "ListPosts" /\ ret.in.limit > 0 /\ ret.in.offset >= 0)
        => LET n == Cardinality(DOMAIN posts)
               count == Min(ret.in.limit, Max(0, n - ret.in.offset))
           IN  /\ ret.err = ErrNil
               /\ Len(ret.list) = count
               /\ ret.in.offset >= n => ret.list = <<>>
               /\ \E o \in [1 .. n -> DOMAIN posts] :
                     /\ \A i, j \in 1 .. n : i # j => o[i] # o[j]
                     /\ \A i, j \in 1 .. n : i < j => posts[o[i]].CreatedAt >= posts[o[j]].CreatedAt
                     /\ \A k \in 1 .. count : ret.list[k] = posts[o[ret.in.offset + k]]

\* List with a positive limit and offset 1 has returned the older of two
\* posts created at different times.
C16_Witness ==
    /\ ret.op = "ListPosts"
    /\ ret.in.limit > 0
    /\ ret.in.offset = 1
    /\ Cardinality(DOMAIN posts) = 2
    /\ Len(ret.list) = 1
    /\ \E i \in DOMAIN posts : posts[i].CreatedAt > ret.list[1].CreatedAt

\* C17: CreatePostFromInput, and the form's ToPost, keep the title as given,
\* make each of content, author and slug absent for the empty string and
\* present with exactly the input otherwise, and leave id, created_at and
\* updated_at unset.
C17_BuildFromInput ==
    (ret.op \in {"CreatePostFromInput", "ToPost"})
        => /\ Len(ret.post) = 1
           /\ ret.post[1].Title = ret.in.title
           /\ \A f \in {<<ret.post[1].Content, ret.in.content>>,
                         <<ret.post[1].Author, ret.in.author>>,
                         <<ret.post[1].Slug, ret.in.slug>>} :
                 IF f[2] = "" THEN ~f[1].Valid ELSE f[1].Valid /\ f[1].String = f[2]
           /\ ret.post[1].ID = 0
           /\ ret.post[1].CreatedAt = ZeroTime
           /\ ret.post[1].UpdatedAt = ZeroTime

\* ToPost was applied to a form with a title, an empty content and author and
\* a slug.
C17_Witness ==
    /\ ret.op = "ToPost"
    /\ ret.in.title # ""
    /\ ret.in.content = ""
    /\ ret.in.author = ""
    /\ ret.in.slug # ""

\* The characters a slug may consist of, and the characters of a title that
\* end up in it: ASCII letters and digits.
SlugLetters == {"a", "b"}
SlugDigits == {"7"}
Eligible(c) == c \in {"a", "B", "7"}

\* C18: for every title the generated slug consists of ASCII lowercase
\* letters, ASCII digits and hyphens only, has no two hyphens in a row, neither
\* starts nor ends with a hyphen, and is empty when the title is empty or has
\* no eligible character.
C18_SlugWellFormed ==
    (ret.op = "generateSlug")
        => LET slug == ret.text
               title == ret.in.chars
           IN  /\ \A i \in DOMAIN slug : slug[i] \in SlugLetters \cup SlugDigits \cup {"-"}
               /\ \A i \in 1 .. Len(slug) - 1 : ~(slug[i] = "-" /\ slug[i + 1] = "-")
               /\ slug # <<>> => (slug[1] # "-" /\ slug[Len(slug)] # "-")
               /\ (\A i \in DOMAIN title : ~Eligible(title[i])) => slug = <<>>

\* A slug was generated from a title with three hyphens in a row between two
\* letters.
C18_Witness ==
    /\ ret.op = "generateSlug"
    /\ ret.in.chars = <<"a", "-", "-", "-", "B">>
    /\ ret.text = <<"a", "-", "b">>

\* The place in the slug of the k-th character that is not a hyphen.
SlugPos(slug, k) ==
    CHOOSE p \in DOMAIN slug :
        slug[p] # "-" /\ Cardinality({q \in 1 .. p : slug[q] # "-"}) = k

\* Every run of characters of W between two eligible characters of the title
\* shows in the slug as exactly one hyphen between those two characters.
RunsHyphened(title, slug, W) ==
    \A i, j \in DOMAIN title :
        (/\ i + 1 < j
         /\ Eligible(title[i])
         /\ Eligible(title[j])
         /\ \A m \in (i + 1) .. (j - 1) : title[m] \in W)
            => LET k == Cardinality({q \in 1 .. i : Eligible(title[q])})
               IN  /\ Cardinality({q \in DOMAIN slug : slug[q] # "-"}) >= k + 1
                   /\ SlugPos(slug, k + 1) = SlugPos(slug, k) + 2
                   /\ slug[SlugPos(slug, k) + 1] = "-"

\* C19: every run of whitespace characters (spaces, tabs, newlines) between
\* two eligible characters of the title becomes exactly one hyphen in the slug.
C19_WhitespaceRunsHyphened ==
    (ret.op = "generateSlug") => RunsHyphened(ret.in.chars, ret.text, {" ", "\t"})

\* C19, amended: every run of space characters between two eligible
\* characters of the title becomes exactly one hyphen in the slug; a tab or a
\* newline is dropped like any other character that is not kept.
C19_SpaceRunsHyphened ==
    (ret.op = "generateSlug") => RunsHyphened(ret.in.chars, ret.text, {" "})

\* A slug was generated from a title with a run of three spaces between two
\* letters.
C19_Witness ==
    /\ ret.op = "generateSlug"
    /\ ret.in.chars = <<"a", " ", " ", " ", "B">>
    /\ ret.text = <<"a", "-", "b">>

\* The place of call c in the log, 0 when it was not made.
CallPos(calls, c) ==
    IF \E k \in DOMAIN calls : calls[k] = c
    THEN CHOOSE k \in DOMAIN calls : calls[k] = c
    ELSE 0

\* C20: in the create-with-editor workflow the editor's availability is asked
\* before any edit: editContent is never called after isAvailable returned
\* false, that call fails with 'editor not available' carrying the editor's
\* description, and with the editor option off neither is called.
C20_AvailabilityBeforeEdit ==
    [][Called("Posts.CreatePost")
          => LET calls == ret'.calls
                 edit == CallPos(calls, "EditContentWithTemplate")
                 yes == CallPos(calls, "IsAvailable:true")
                 no == CallPos(calls, "IsAvailable:false")
             IN  /\ edit # 0 => (yes # 0 /\ yes < edit /\ no = 0)
                 /\ no # 0 => /\ ret'.err = ErrEditorMissing
                              /\ ret'.detail = ret'.in.editor
                              /\ ret'.post = <<>>
                              /\ posts' = posts
                 /\ ret'.in.useEditor => (yes # 0 \/ no # 0)
                 /\ ~ret'.in.useEditor => calls = <<>>]_vars

\* The handler was asked to create a post with an editor that is not
\* available, while a post is stored.
C20_Witness ==
    /\ ret.op = "Posts.CreatePost"
    /\ ret.in.useEditor
    /\ ret.calls = <<"IsAvailable:false", "GetEditorInfo">>
    /\ ret.err = ErrEditorMissing
    /\ posts # <<>>

\* C21: when the create-with-editor workflow fails at the editor (no editor
\* available, the edit returning an error, or the edit returning empty text),
\* it returns an error and no post, and the store holds exactly the posts it
\* held before the call.
C21_EditorFailureCreatesNothing ==
    [][(Called("Posts.CreatePost") /\ ret'.in.session \in {"unavailable", "failed", "empty"})
          => (ret'.err # ErrNil /\ ret'.post = <<>> /\ posts' = posts /\ seq' = seq)]_vars

\* The workflow has failed on an empty edit while a post is stored.
C21_Witness ==
    /\ ret.op = "Posts.CreatePost"
    /\ ret.in.session = "empty"
    /\ ret.err = ErrContentEmpty
    /\ posts # <<>>

\* C22: when the interactive form ends without confirmation, interactive
\* create returns success, opens no editor, performs no store operation and
\* creates no post.
C22_DeclinedFormIsNoOp ==
    [][(Called("createPostInteractive") /\ ret'.in.form = "declined")
          => /\ ret'.err = ErrNil
             /\ ret'.post = <<>>
             /\ ret'.calls = <<"form.Run">>
             /\ posts' = posts
             /\ seq' = seq]_vars

\* A form was declined while one was confirmed before: a post is stored.
C22_Witness ==
    /\ ret.op = "createPostInteractive"
    /\ ret.in.form = "declined"
    /\ ret.err = ErrNil
    /\ posts # <<>>

\* What the operation recorded in r does to store ps at time t when its
\* context stays live.
FullEffect(ps, sq, t, r) ==
    LET i == r.in
        updates == CreatePostFromInput(i.title, i.content, i.author, "")
    IN  CASE r.op = "CreatePost" ->
               CreatePost(ps, sq, t, CreatePostFromInput(i.title, i.content, i.author, i.slug)).posts
          [] r.op = "UpdatePostByID" -> UpdatePostByID(ps, t, i.id, updates).posts
          [] r.op = "UpdatePostBySlug" -> UpdatePostBySlug(ps, t, i.slug, updates).posts
          [] r.op = "DeletePostByID" -> DeletePostByID(ps, i.id).posts
          [] r.op = "DeletePostBySlug" -> DeletePostBySlug(ps, i.slug).posts
          [] OTHER -> ps

C25_FailureNotCached ==
    \A p \in Procs :
        procs[p].pc = "returned" => (procs[p].instance # "nil" \/ procs[p].err # ErrNil)

\* C26: New runs at most once, and every call that returns a store returns
\* the one that run constructed, whatever databaseURL it passed.
C26_OneStore ==
    /\ Len(once.built) <= 1
    /\ \A p \in Procs :
          (procs[p].pc = "returned" /\ procs[p].instance # "nil")
              => procs[p].instance = InstanceOf(1)

\* Two callers that passed different URLs hold the same store.
C26_Witness ==
    /\ procs["p1"].pc = "returned"
    /\ procs["p2"].pc = "returned"
    /\ procs["p1"].instance = "db1"
    /\ procs["p2"].instance = "db1"
    /\ procs["p1"].url # procs["p2"].url

\* The row ps[id] after an UPDATE with the values of updates at time t.
Written(ps, id, updates, t) ==
    [ps[id] EXCEPT !.Title = updates.Title, !.Content = updates.Content,
                   !.Author = updates.Author, !.UpdatedAt = t]

\* C27: under every interleaving with creates, deletes and other updates,
\* UpdateBySlug looks up the post that holds the slug without changing
\* anything, and its update then changes that post and no other, or, when the
\* post has been deleted in between, changes nothing and returns not-found.
C27_BySlugUpdatesTheHolder ==
    [][\A p \in Procs :
          LET id == procs[p].id
          IN  /\ (procs[p].pc = "idle" /\ procs'[p].op = "UpdatePostBySlug")
                    => /\ posts' = posts
                       /\ procs'[p].id \in HoldersOf(posts, procs'[p].slug)
              /\ (ret' # ret /\ ret'.op = "UpdatePostBySlug" /\ ret'.calls = <<"GetPostBySlug">>)
                    => /\ posts' = posts
                       /\ ret'.err = ErrNotFound
              /\ (procs[p].pc = "update" /\ procs[p].op = "UpdatePostBySlug"
                    /\ procs'[p].pc # "update")
                    => IF id \in DOMAIN posts
                       THEN /\ procs'[p].pc = "readback"
                            /\ posts[id].Slug = [Valid |-> TRUE, String |-> procs[p].slug]
                            /\ posts' = [posts EXCEPT ![id] =
                                            Written(posts, id, UpdatesOf(procs[p].title), now)]
                       ELSE /\ posts' = posts
                            /\ ret'.op = "UpdatePostBySlug"
                            /\ ret'.err = ErrNotFound
              /\ (procs[p].pc = "readback" /\ procs[p].op = "UpdatePostBySlug"
                    /\ procs'[p].pc = "idle")
                    => /\ posts' = posts
                       /\ ret'.op = "UpdatePostBySlug"
                       /\ IF id \in DOMAIN posts
                          THEN ret'.err = ErrNil /\ ret'.post = <<posts[id]>>
                          ELSE ret'.err = ErrNotFound]_vars

\* The post found by the lookup was deleted before the update ran.
C27_Witness ==
    /\ ret.op = "UpdatePostBySlug"
    /\ ret.calls = <<"UPDATE">>
    /\ ret.err = ErrNotFound
    /\ ret.in.id \in deleted

\* The title, content and author of post were written together from one
\* call's values.
Coherent(post) ==
    \E d \in Drafts :
        LET u == CreatePostFromInput(d[1], d[2], d[3], "")
        IN  post.Title = u.Title /\ post.Content = u.Content /\ post.Author = u.Author

\* C28: when UpdateByID calls on one id run concurrently, each UPDATE writes
\* its title, content, author and updated_at over the row together or changes
\* nothing, so the row always holds the values of the latest write and never a
\* mix of two calls.
C28_LastWriteWins ==
    [][/\ \A p \in Procs :
             (procs[p].pc = "update" /\ procs[p].op = "UpdatePostByID"
                /\ procs'[p].pc # "update")
                => IF procs[p].id \in DOMAIN posts
                   THEN /\ procs'[p].pc = "readback"
                        /\ posts' = [posts EXCEPT ![procs[p].id] =
                                        Written(posts, procs[p].id, UpdatesOf(procs[p].title), now)]
                   ELSE /\ posts' = posts
                        /\ ret'.err = ErrNotFound
       /\ \A i \in DOMAIN posts' : Coherent(posts'[i])]_vars

\* Two calls with different values have both written the same stored post.
C28_Witness ==
    /\ procs["p1"].pc = "readback"
    /\ procs["p2"].pc = "readback"
    /\ procs["p1"].op = "UpdatePostByID"
    /\ procs["p2"].op = "UpdatePostByID"
    /\ procs["p1"].id = procs["p2"].id
    /\ procs["p1"].title # procs["p2"].title
    /\ procs["p1"].id \in DOMAIN posts

\* The stored posts that the identifier of the call recorded in r matches.
MatchedBy(ps, r) ==
    IF r.op \in {"UpdatePostByID", "DeletePostByID"} THEN {r.in.id} \cap DOMAIN ps
    ELSE HoldersOf(ps, r.in.slug)

\* C29: a successful create adds one post and changes no other, a successful
\* update or delete changes or removes only the one post its identifier
\* matches, and Get and List change no post.
C29_WritesTouchOneTarget ==
    [][(now' = now)
          => /\ (ret'.op = "CreatePost" /\ ret'.err = ErrNil)
                  => /\ Cardinality(DOMAIN posts' \ DOMAIN posts) = 1
                     /\ \A i \in DOMAIN posts : i \in DOMAIN posts' /\ posts'[i] = posts[i]
             /\ (ret'.op \in {"UpdatePostByID", "UpdatePostBySlug"} /\ ret'.err = ErrNil)
                  => /\ Cardinality(MatchedBy(posts, ret')) = 1
                     /\ DOMAIN posts' = DOMAIN posts
                     /\ \A i \in DOMAIN posts \ MatchedBy(posts, ret') : posts'[i] = posts[i]
             /\ (ret'.op \in {"DeletePostByID", "DeletePostBySlug"} /\ ret'.err = ErrNil)
                  => /\ Cardinality(MatchedBy(posts, ret')) = 1
                     /\ DOMAIN posts' = DOMAIN posts \ MatchedBy(posts, ret')
                     /\ \A i \in DOMAIN posts' : posts'[i] = posts[i]
             /\ (ret'.op \in {"GetPostByID", "GetPostBySlug", "ListPosts"})
                  => posts' = posts]_vars

\* A delete removed its post and left another one stored.
C29_Witness ==
    /\ ret.op = "DeletePostByID"
    /\ ret.err = ErrNil
    /\ ret.in.id \in deleted
    /\ \E i \in DOMAIN posts : i < ret.in.id

====
